---------------------------- MODULE Spec2Model ----------------------------
(***************************************************************************)
(* Model of the two Streamlit pages of the Webex review dashboard:         *)
(*   src/Balloon_Dashboard.py            (the "Balloon" page)              *)
(*   src/pages/In-Detailed Dashboard.py  (the "In-Detailed" page)          *)
(*                                                                         *)
(* Python strings are TLA+ strings; a character is a string of length 1.   *)
(* Each group of variables belongs to one part of the pages and has its    *)
(* own specification; the other groups stay at their initial values.       *)
(***************************************************************************)
EXTENDS Integers, Sequences, FiniteSets, Bags, TLC

VARIABLES
    \* sentiment classification of one review text, on each page
    reviewText, sentimentBalloon, sentimentDetailed,
    \* the sort key of one version label, on each page
    versionLabel, keyBalloon, keyDetailed,
    \* a version column of the table and the version list each page builds
    versionColumn, version_list, sorted_versions,
    \* Balloon page: the rows of one sentiment bucket and the balloon drawn
    sentiment_df, balloon,
    \* a browser session: the sheet on disk, the st.cache_data entry of each
    \* page's load_data, the page shown, its widgets and what the last run
    \* of its script rendered; firstLoaded records what each page's
    \* load_data returned when it first ran
    sheet, cache, page, widgets, shown, firstLoaded

sentVars == <<reviewText, sentimentBalloon, sentimentDetailed>>
keyVars == <<versionLabel, keyBalloon, keyDetailed>>
listVars == <<versionColumn, version_list, sorted_versions>>
balloonVars == <<sentiment_df, balloon>>
sessionVars == <<sheet, cache, page, widgets, shown, firstLoaded>>

vars == <<sentVars, keyVars, listVars, balloonVars, sessionVars>>

\* What a step of one part leaves alone: the variables of the other parts.
OnlySentiment == UNCHANGED <<keyVars, listVars, balloonVars, sessionVars>>
OnlyKey == UNCHANGED <<sentVars, listVars, balloonVars, sessionVars>>
OnlyList == UNCHANGED <<sentVars, keyVars, balloonVars, sessionVars>>
OnlyBalloon == UNCHANGED <<sentVars, keyVars, listVars, sessionVars>>
OnlySession == UNCHANGED <<sentVars, keyVars, listVars, balloonVars>>

(***************************************************************************)
(* Strings                                                                 *)
(***************************************************************************)

\* s[i] of Python (1-based here): the character at position i.
CharAt(s, i) == SubSeq(s, i, i)

UpperLetters == "ABCDEFGHIJKLMNOPQRSTUVWXYZ"
LowerLetters == "abcdefghijklmnopqrstuvwxyz"

\* One character of str.lower().
LowerChar(c) ==
    IF \E i \in 1..Len(UpperLetters) : CharAt(UpperLetters, i) = c
    THEN CharAt(LowerLetters, CHOOSE i \in 1..Len(UpperLetters) : CharAt(UpperLetters, i) = c)
    ELSE c

\* str.lower()
RECURSIVE Lower(_)
Lower(s) ==
    IF Len(s) = 0 THEN ""
    ELSE LowerChar(CharAt(s, 1)) \o Lower(SubSeq(s, 2, Len(s)))

\* Python's `word in text` on strings: word occurs at some offset of text.
Contains(text, word) ==
    \E off \in 0..(Len(text) - Len(word)) :
        SubSeq(text, off + 1, off + Len(word)) = word

\* any(word in text for word in words)
AnyWordIn(text, words) ==
    \E k \in 1..Len(words) : Contains(text, words[k])

(***************************************************************************)
(* Sentiment classifier (both pages)                                       *)
(***************************************************************************)

BalloonPositiveWords ==
    <<"good", "great", "excellent", "love", "happy", "nice", "perfect",
      "clear", "easy", "Perfectoo">>
BalloonNegativeWords ==
    <<"bad", "terrible", "hate", "issue", "problem", "poor", "worst">>
DetailedPositiveWords ==
    <<"good", "great", "excellent", "love", "happy", "nice">>
DetailedNegativeWords ==
    <<"bad", "terrible", "hate", "issue", "problem", "poor">>

\* The if / elif / else chain shared by the two classify_sentiment functions.
ClassifyNegativeFirst(lowered, positive, negative) ==
    IF AnyWordIn(lowered, negative) THEN "Negative"
    ELSE IF AnyWordIn(lowered, positive) THEN "Positive"
    ELSE "Neutral"

ClassifyWith(lowered, positive, negative) ==
    IF AnyWordIn(lowered, positive) THEN "Positive"
    ELSE IF AnyWordIn(lowered, negative) THEN "Negative"
    ELSE "Neutral"

classify_sentiment_balloon(text) ==
    ClassifyWith(Lower(text), BalloonPositiveWords, BalloonNegativeWords)

classify_sentiment_detailed(text) ==
    ClassifyWith(Lower(text), DetailedPositiveWords, DetailedNegativeWords)

\* Pieces a review text is assembled from: keywords of both lists in several
\* letter cases, keywords that only one page lists, and pieces that form a
\* keyword only across a boundary ("is" + "sue").
TextFragments ==
    {"good", "GREAT", "Bad", "is", "sue", "worst", "Perfectoo", "clear",
     " app ", "not ", "ok", "Nice"}

MaxTextLen == 12

Unset == "unset"

SentimentStart ==
    /\ reviewText = ""
    /\ sentimentBalloon = Unset
    /\ sentimentDetailed = Unset

\* The review text under consideration grows by one piece; a new text has
\* not been classified by either page yet.
AppendFragment(f) ==
    /\ Len(reviewText) + Len(f) <= MaxTextLen
    /\ reviewText' = reviewText \o f
    /\ sentimentBalloon' = Unset
    /\ sentimentDetailed' = Unset
    /\ OnlySentiment

ClassifyBalloon ==
    /\ sentimentBalloon' = classify_sentiment_balloon(reviewText)
    /\ UNCHANGED <<reviewText, sentimentDetailed>>
    /\ OnlySentiment

ClassifyDetailed ==
    /\ sentimentDetailed' = classify_sentiment_detailed(reviewText)
    /\ UNCHANGED <<reviewText, sentimentBalloon>>
    /\ OnlySentiment

NextSentiment ==
    \/ \E f \in TextFragments : AppendFragment(f)
    \/ ClassifyBalloon
    \/ ClassifyDetailed


(***************************************************************************)
(* Version ordering (both pages)                                           *)
(***************************************************************************)

Digits == "0123456789"

\* A character the pattern \d matches.
IsDigit(c) == \E i \in 1..Len(Digits) : CharAt(Digits, i) = c

DigitValue(c) == (CHOOSE i \in 1..Len(Digits) : CharAt(Digits, i) = c) - 1

\* int(run) of a string of decimal digits.
RECURSIVE ToInt(_)
ToInt(run) ==
    IF Len(run) = 0 THEN 0
    ELSE 10 * ToInt(SubSeq(run, 1, Len(run) - 1)) + DigitValue(CharAt(run, Len(run)))

\* The longest prefix of s made of digits (isDigit = TRUE) or of non-digits.
RECURSIVE TakeWhile(_, _)
TakeWhile(s, isDigit) ==
    IF Len(s) = 0 \/ IsDigit(CharAt(s, 1)) # isDigit THEN ""
    ELSE CharAt(s, 1) \o TakeWhile(SubSeq(s, 2, Len(s)), isDigit)

DropFirst(s, n) == SubSeq(s, n + 1, Len(s))

\* re.findall(r'\d') : every digit on its own.
RECURSIVE FindSingleDigits(_)
FindSingleDigits(s) ==
    IF Len(s) = 0 THEN <<>>
    ELSE IF IsDigit(CharAt(s, 1)) THEN <<CharAt(s, 1)>> \o FindSingleDigits(DropFirst(s, 1))
    ELSE FindSingleDigits(DropFirst(s, 1))

\* re.findall(r'\d+', s): the maximal digit runs of s, left to right.
RECURSIVE FindDigitRuns(_)
FindDigitRuns(s) ==
    IF Len(s) = 0 THEN <<>>
    ELSE IF IsDigit(CharAt(s, 1))
         THEN LET run == TakeWhile(s, TRUE)
              IN  <<run>> \o FindDigitRuns(DropFirst(s, Len(run)))
         ELSE FindDigitRuns(DropFirst(s, 1))

\* re.split(r'(\d+)', s): the text before the first digit run, then each
\* digit run followed by the text up to the next run (or the end); the text
\* pieces may be empty.
RECURSIVE SplitKeepingDigitRuns(_)
SplitKeepingDigitRuns(s) ==
    LET text == TakeWhile(s, FALSE)
        rest == DropFirst(s, Len(text))
        run  == TakeWhile(rest, TRUE)
    IN  IF Len(rest) = 0 THEN <<text>>
        ELSE <<text, run>> \o SplitKeepingDigitRuns(DropFirst(rest, Len(run)))

\* An element of a sort key: a Python int or a Python str.
IntElem(n) == [isInt |-> TRUE, n |-> n, s |-> ""]
StrElem(t) == [isInt |-> FALSE, n |-> 0, s |-> t]

\* str.isdigit() of a piece: non-empty and all digits.
StrIsDigit(x) == Len(x) > 0 /\ \A i \in 1..Len(x) : IsDigit(CharAt(x, i))

\* The missing-value marker of a table cell; no version label equals it.
NaN == "<NaN>"

\* version_key without int(): the digit runs stay text.
version_key_text(v) ==
    LET nums == FindDigitRuns(v)
    IN  IF Len(nums) > 0 THEN [k \in 1..Len(nums) |-> StrElem(nums[k])]
        ELSE <<StrElem("0")>>

\* Balloon page: version_key(v)
version_key_balloon(v) ==
    LET nums == FindDigitRuns(v)
    IN  IF Len(nums) > 0 THEN [k \in 1..Len(nums) |-> IntElem(ToInt(nums[k]))]
        ELSE <<IntElem(0)>>

\* version_key built from the digit runs alone, the text between them dropped.
version_key_digits_only(v) ==
    LET nums == FindDigitRuns(v)
    IN  [k \in 1..Len(nums) |-> IntElem(ToInt(nums[k]))]

\* In-Detailed page: version_key(v)
version_key_detailed(v) ==
    IF v = NaN THEN <<>>
    ELSE LET pieces == SplitKeepingDigitRuns(v)
         IN  [k \in 1..Len(pieces) |->
                 IF StrIsDigit(pieces[k]) THEN IntElem(ToInt(pieces[k]))
                 ELSE StrElem(pieces[k])]

LabelAlphabet == {"v", ".", "0", "1", "2", "9"}

MaxLabelLen == 5

NoKey == [computed |-> FALSE, key |-> <<>>]

KeyStart ==
    /\ versionLabel = ""
    /\ keyBalloon = NoKey
    /\ keyDetailed = NoKey

\* The label under consideration grows by one character.
AppendLabelChar(c) ==
    /\ Len(versionLabel) < MaxLabelLen
    /\ versionLabel' = versionLabel \o c
    /\ keyBalloon' = NoKey
    /\ keyDetailed' = NoKey
    /\ OnlyKey

KeyOnBalloon ==
    /\ keyBalloon' = [computed |-> TRUE, key |-> version_key_balloon(versionLabel)]
    /\ UNCHANGED <<versionLabel, keyDetailed>>
    /\ OnlyKey

KeyOnDetailed ==
    /\ keyDetailed' = [computed |-> TRUE, key |-> version_key_detailed(versionLabel)]
    /\ UNCHANGED <<versionLabel, keyBalloon>>
    /\ OnlyKey

NextKey ==
    \/ \E c \in LabelAlphabet : AppendLabelChar(c)
    \/ KeyOnBalloon
    \/ KeyOnDetailed


\* Code points of printable ASCII characters: runs of consecutive characters
\* with the code point of the first of each run.
AsciiRuns ==
    << <<" !", 32>>, <<"#$%&", 35>>,
       <<"()*+,-./0123456789:;<=>?@ABCDEFGHIJKLMNOPQRSTUVWXYZ[", 40>>,
       <<"]^_", 93>>, <<"abcdefghijklmnopqrstuvwxyz{|}~", 97>> >>

\* ord(c)
Ord(c) ==
    LET r == CHOOSE k \in 1..Len(AsciiRuns) : Contains(AsciiRuns[k][1], c)
        run == AsciiRuns[r][1]
    IN  AsciiRuns[r][2] - 1 + (CHOOSE i \in 1..Len(run) : CharAt(run, i) = c)

\* Python's a < b on strings: by code point, a proper prefix first.
RECURSIVE StrLess(_, _)
StrLess(a, b) ==
    IF Len(b) = 0 THEN FALSE
    ELSE IF Len(a) = 0 THEN TRUE
    ELSE IF CharAt(a, 1) = CharAt(b, 1) THEN StrLess(DropFirst(a, 1), DropFirst(b, 1))
    ELSE Ord(CharAt(a, 1)) < Ord(CharAt(b, 1))

\* The first index at which two lists differ (elements compared with ==),
\* or 0 when one is a prefix of the other.
FirstDifference(a, b) ==
    LET m == IF Len(a) < Len(b) THEN Len(a) ELSE Len(b)
        diff == {i \in 1..m : a[i] # b[i]}
    IN  IF diff = {} THEN 0 ELSE CHOOSE i \in diff : \A j \in diff : i <= j

\* Python's a < b on lists raises TypeError when the first differing
\* elements are an int and a str.
ListLessRaises(a, b) ==
    LET i == FirstDifference(a, b)
    IN  i # 0 /\ a[i].isInt # b[i].isInt

\* Python's a < b on lists (when it does not raise).
ListLess(a, b) ==
    LET i == FirstDifference(a, b)
    IN  IF i = 0 THEN Len(a) < Len(b)
        ELSE IF a[i].isInt THEN a[i].n < b[i].n
        ELSE StrLess(a[i].s, b[i].s)

\* One step of a stable sort: x goes behind every entry it is not less than.
RECURSIVE InsertByKey(_, _)
InsertByKey(x, done) ==
    IF Len(done) = 0 THEN <<x>>
    ELSE LET last == done[Len(done)]
         IN  IF ListLess(x.key, last.key)
             THEN InsertByKey(x, SubSeq(done, 1, Len(done) - 1)) \o <<last>>
             ELSE done \o <<x>>

RECURSIVE SortByKey(_)
SortByKey(entries) ==
    IF Len(entries) = 0 THEN <<>>
    ELSE InsertByKey(entries[Len(entries)], SortByKey(SubSeq(entries, 1, Len(entries) - 1)))

\* Series.dropna(): the cells that are not missing, in order.
RECURSIVE DropNa(_)
DropNa(cells) ==
    IF Len(cells) = 0 THEN <<>>
    ELSE IF cells[1] = NaN THEN DropNa(Tail(cells))
    ELSE <<cells[1]>> \o DropNa(Tail(cells))

\* Series.unique(): the distinct cells in order of first appearance.
RECURSIVE Unique(_)
Unique(cells) ==
    IF Len(cells) = 0 THEN <<>>
    ELSE LET front == Unique(SubSeq(cells, 1, Len(cells) - 1))
             x == cells[Len(cells)]
         IN  IF \E i \in 1..Len(front) : front[i] = x THEN front ELSE front \o <<x>>

\* sorted(labels, key=...): the labels with their keys, sorted stably with
\* the list comparison; TypeError when a comparison of two keys raises.
SortedLabels(entries) ==
    IF \E i, j \in 1..Len(entries) : ListLessRaises(entries[i].key, entries[j].key)
    THEN [status |-> "TypeError", list |-> <<>>]
    ELSE LET sorted == SortByKey(entries)
         IN  [status |-> "ok", list |-> [k \in 1..Len(sorted) |-> sorted[k].label]]

\* Balloon page: version_list
BalloonVersionList(column) ==
    LET labels == Unique(DropNa(column))
        sorted == SortedLabels([k \in 1..Len(labels) |->
                      [label |-> labels[k], key |-> version_key_balloon(labels[k])]])
    IN  IF sorted.status = "ok"
        THEN [sorted EXCEPT !.list = <<"All Versions">> \o @]
        ELSE sorted

\* In-Detailed page: sorted_versions
DetailedSortedVersions(column) ==
    LET labels == Unique(DropNa(column))
    IN  SortedLabels([k \in 1..Len(labels) |->
            [label |-> labels[k], key |-> version_key_detailed(labels[k])]])

\* Version labels a column may hold.
VersionPool ==
    {"v2.9", "v2.10", "v2.10.3", "beta", "beta2", "v0", "0", "2.1", NaN}

MaxRows == 3

NoList == [status |-> "unset", list |-> <<>>]

ListStart ==
    /\ versionColumn = <<>>
    /\ version_list = NoList
    /\ sorted_versions = NoList

\* The table has one more row, with cell v in the version column.
AddVersionRow(v) ==
    /\ Len(versionColumn) < MaxRows
    /\ versionColumn' = Append(versionColumn, v)
    /\ version_list' = NoList
    /\ sorted_versions' = NoList
    /\ OnlyList

RunBalloonSidebar ==
    /\ version_list' = BalloonVersionList(versionColumn)
    /\ UNCHANGED <<versionColumn, sorted_versions>>
    /\ OnlyList

RunDetailedSidebar ==
    /\ sorted_versions' = DetailedSortedVersions(versionColumn)
    /\ UNCHANGED <<versionColumn, version_list>>
    /\ OnlyList

NextList ==
    \/ \E v \in VersionPool : AddVersionRow(v)
    \/ RunBalloonSidebar
    \/ RunDetailedSidebar

(***************************************************************************)
(* Balloon geometry (Balloon page)                                         *)
(*                                                                         *)
(* Numbers are exact fractions with fixed denominators: a score in         *)
(* hundredths, a pixel size in 1/PixelDen pixel, a length of the plot in   *)
(* 1/DataDen data unit.  A timestamp is a number of hours.                 *)
(***************************************************************************)

score_min == 320
score_max == 500
min_size == 30
max_size == 80

ScoreDen == 100
PixelDen == score_max - score_min
\* pixel_to_data_ratio = 2 / 600
RatioNum == 2
RatioDen == 600
DataDen == PixelDen * RatioDen

HoursPerDay == 24

\* The rows of a bucket, as a bag: a function from row to its multiplicity.
Rows(df) == DOMAIN df
RowCount(df) == IF Rows(df) = {} THEN 0 ELSE BagCardinality(df)

RECURSIVE ScoreSum(_, _)
ScoreSum(df, rows) ==
    IF rows = {} THEN 0
    ELSE LET r == CHOOSE x \in rows : TRUE
         IN  r.score * df[r] + ScoreSum(df, rows \ {r})

\* a / n rounded to the nearest integer, a tie to the even one: what round()
\* does with a value that lies exactly between two results.
RoundHalfEven(a, n) ==
    LET q == a \div n
        r == a % n
    IN  IF 2 * r < n THEN q
        ELSE IF 2 * r > n THEN q + 1
        ELSE IF q % 2 = 0 THEN q ELSE q + 1

\* round(sentiment_df['score'].mean(), 2), in hundredths
AvgScore(df) == RoundHalfEven(ScoreDen * ScoreSum(df, Rows(df)), RowCount(df))

MinAt(df) == CHOOSE t \in {r.at : r \in Rows(df)} : \A r \in Rows(df) : t <= r.at
MaxAt(df) == CHOOSE t \in {r.at : r \in Rows(df)} : \A r \in Rows(df) : t >= r.at

\* A span in days that counts a started day as a whole day.
DaysRoundedUp(hours) == (hours + HoursPerDay - 1) \div HoursPerDay

\* Timedelta.days of a span that is not negative: its whole days.
Days(hours) == hours \div HoursPerDay

Max(a, b) == IF a >= b THEN a ELSE b
Min(a, b) == IF a <= b THEN a ELSE b

\* duration_days / 15 with no minimum.
DurationUnfloored(days) == (days * DataDen) \div 15

\* max(duration_days / 15, 1.5), in 1/DataDen
DurationScaled(days) == Max((days * DataDen) \div 15, (3 * DataDen) \div 2)

\* A score_norm that is not clamped.
Unclamped(norm) == norm

\* max(0, min(score_norm, 1)), score_norm in 1/PixelDen
Clamp01(norm) == Max(0, Min(norm, PixelDen))

\* score_norm = (avg_score - score_min) / (score_max - score_min), clamped;
\* circle_pixel_radius = min_size + score_norm * (max_size - min_size),
\* in 1/PixelDen pixel
CirclePixelRadius(avg) ==
    min_size * PixelDen + Clamp01(avg - score_min) * (max_size - min_size)

\* circle_data_radius = (circle_pixel_radius / 2) * pixel_to_data_ratio,
\* in 1/DataDen
CircleDataRadius(pixelRadius) ==
    (pixelRadius * RatioNum * (DataDen \div (PixelDen * RatioDen))) \div 2

\* The body of the loop over the sentiment buckets, for one bucket.
BalloonOf(df) ==
    IF RowCount(df) = 0 THEN [drawn |-> FALSE]
    ELSE LET avg_score == AvgScore(df)
             duration_days == Days(MaxAt(df) - MinAt(df))
             duration_scaled == DurationScaled(duration_days)
             circle_pixel_radius == CirclePixelRadius(avg_score)
             circle_data_radius == CircleDataRadius(circle_pixel_radius)
             stick_visible_height ==
                 Max(duration_scaled - circle_data_radius, DataDen \div 2)
         IN  [drawn |-> TRUE,
              reviews |-> RowCount(df),
              avg_score |-> avg_score,
              duration_days |-> duration_days,
              duration_scaled |-> duration_scaled,
              circle_pixel_radius |-> circle_pixel_radius,
              circle_data_radius |-> circle_data_radius,
              stick_visible_height |-> stick_visible_height,
              stick_line_y |-> <<0, stick_visible_height>>,
              circle_y |-> stick_visible_height + circle_data_radius]

NotRun == [drawn |-> FALSE, run |-> FALSE]

BalloonStart ==
    /\ sentiment_df = <<>>
    /\ balloon = NotRun

\* Scores 1 to 5, and 6 as a score outside the expected range; all reviews at
\* one time.
ScoreRows == {[score |-> sc, at |-> 0] : sc \in 1..6}

\* Reviews at noon and midnight of days 0, 22, 23 and 30, of few scores.
TimeRows == {[score |-> sc, at |-> t] : sc \in {1, 4, 5}, t \in {0, 12, 540, 552, 720}}

MaxReviews == 10
MaxTimedReviews == 3

\* The bucket has one more review.
AddReview(row, limit) ==
    /\ RowCount(sentiment_df) < limit
    /\ sentiment_df' = IF row \in DOMAIN sentiment_df
                       THEN [sentiment_df EXCEPT ![row] = @ + 1]
                       ELSE sentiment_df @@ (row :> 1)
    /\ balloon' = NotRun
    /\ OnlyBalloon

AddScoredReview ==
    \E row \in ScoreRows : AddReview(row, MaxReviews)

AddTimedReview ==
    \E row \in TimeRows : AddReview(row, MaxTimedReviews)

\* The page runs and draws the bucket's balloon, or nothing for no rows.
DrawBalloon ==
    /\ balloon' = BalloonOf(sentiment_df)
    /\ UNCHANGED sentiment_df
    /\ OnlyBalloon

NextBalloonScores == AddScoredReview \/ DrawBalloon

NextBalloonTimes == AddTimedReview \/ DrawBalloon

(***************************************************************************)
(* The sheet and the Balloon page's script                                 *)
(***************************************************************************)

\* A cell of the sheet's 'at' column: a date-time (hours since the first
\* day's midnight) or text that is no date.
DateCell(h) == [kind |-> "datetime", hours |-> h]
TextCell == [kind |-> "text", hours |-> 0]

\* A timestamp of a frame: NaT or hours.
NaT == [isNaT |-> TRUE, hours |-> 0]
Timestamp(h) == [isNaT |-> FALSE, hours |-> h]

\* pd.to_datetime of one cell with errors='coerce'
ToDatetimeCoerce(cell) ==
    IF cell.kind = "datetime" THEN Timestamp(cell.hours) ELSE NaT

\* Rows a sheet may hold.
RowPool ==
    { [at |-> DateCell(12), score |-> 5, appVersion |-> "2.9", releaseVersion |-> "v2.9",
       content |-> "Good app", feature |-> "Login#Search # Export"],
      [at |-> DateCell(36), score |-> 1, appVersion |-> "2.10", releaseVersion |-> "v2.10",
       content |-> "bad: login issue", feature |-> "Search#Login"],
      [at |-> DateCell(48), score |-> 4, appVersion |-> "2.10", releaseVersion |-> "v2.10",
       content |-> "ok", feature |-> NaN],
      [at |-> TextCell, score |-> 3, appVersion |-> "2.9", releaseVersion |-> "v2.9",
       content |-> "Love it, no problem", feature |-> " # "] }

MaxSheetRows == 2

NoTable == [loaded |-> FALSE, rows |-> <<>>]
Table(rows) == [loaded |-> TRUE, rows |-> rows]

\* load_data without st.cache_data: the sheet is read on every run.
LoadUncached(entry, onDisk) == Table(onDisk)

\* @st.cache_data: the first call reads the sheet and stores the result; a
\* later call returns a copy of the stored result, whatever the script did
\* to the copy it got before.
LoadCached(entry, onDisk) == IF entry.loaded THEN entry ELSE Table(onDisk)

\* Balloon page, load_data: pd.to_datetime without errors='coerce' raises on
\* a cell that is no date; each row gets its Sentiment.
BalloonFrameRaises(rows) == \E i \in 1..Len(rows) : rows[i].at.kind # "datetime"

BalloonFrame(rows) ==
    [i \in 1..Len(rows) |->
        [at |-> Timestamp(rows[i].at.hours), score |-> rows[i].score,
         appVersion |-> rows[i].appVersion, releaseVersion |-> rows[i].releaseVersion,
         content |-> rows[i].content, feature |-> rows[i].feature,
         Sentiment |-> classify_sentiment_balloon(rows[i].content)]]

Column(df, name) == [i \in 1..Len(df) |-> df[i][name]]

\* version_df: every row, or the rows of the selected appVersion.
VersionDf(df, selected_version) ==
    IF selected_version = "All Versions" THEN df
    ELSE SelectSeq(df, LAMBDA r : r.appVersion = selected_version)

\* The rows of a frame as a bag of [score, at] pairs, at in hours.
RECURSIVE BucketOf(_)
BucketOf(df) ==
    IF Len(df) = 0 THEN <<>>
    ELSE LET row == [score |-> df[1].score, at |-> df[1].at.hours]
             rest == BucketOf(Tail(df))
         IN  IF row \in DOMAIN rest THEN [rest EXCEPT ![row] = @ + 1]
             ELSE rest @@ (row :> 1)

sentiment_order == <<"Positive", "Neutral", "Negative">>

Balloons(version_df) ==
    [i \in 1..Len(sentiment_order) |->
        BalloonOf(BucketOf(SelectSeq(version_df,
                             LAMBDA r : r.Sentiment = sentiment_order[i])))]

IsSpace(c) == c \in {" ", "\t", "\n"}

\* str.split('#')
RECURSIVE Split(_)
Split(s) ==
    IF ~Contains(s, "#") THEN <<s>>
    ELSE LET i == CHOOSE k \in 1..Len(s) :
                     CharAt(s, k) = "#" /\ \A j \in 1..(k - 1) : CharAt(s, j) # "#"
         IN  <<SubSeq(s, 1, i - 1)>> \o Split(DropFirst(s, i))

\* A piece left as it is.
Unstripped(s) == s

\* str.strip()
RECURSIVE Strip(_)
Strip(s) ==
    IF Len(s) = 0 THEN s
    ELSE IF IsSpace(CharAt(s, 1)) THEN Strip(DropFirst(s, 1))
    ELSE IF IsSpace(CharAt(s, Len(s))) THEN Strip(SubSeq(s, 1, Len(s) - 1))
    ELSE s

\* [desc.strip() for desc in entry.split('#') if desc.strip()], as a set
FeaturesOf(entry) ==
    LET parts == Split(entry)
    IN  {Strip(parts[k]) : k \in {j \in 1..Len(parts) : Len(Strip(parts[j])) > 0}}

\* sorted(feature_set)
RECURSIVE SortedStrings(_)
SortedStrings(set) ==
    IF set = {} THEN <<>>
    ELSE LET least == CHOOSE x \in set : \A y \in set \ {x} : StrLess(x, y)
         IN  <<least>> \o SortedStrings(set \ {least})

\* The feature list of the page, or the message shown for an empty list.
FeatureDisplay(version_df) ==
    LET feature_raw == DropNa(Column(version_df, "feature"))
        feature_set == UNION {FeaturesOf(feature_raw[k]) : k \in 1..Len(feature_raw)}
        feature_list == SortedStrings(feature_set)
    IN  IF Len(feature_list) > 0 THEN [kind |-> "list", items |-> feature_list]
        ELSE [kind |-> "info", items |-> <<>>]

\* One run of the Balloon page's script on the frame load_data returned.
BalloonRun(df, selected_version) ==
    LET version_df == VersionDf(df, selected_version)
    IN  [status |-> "ok",
         version_list |-> BalloonVersionList(Column(df, "appVersion")).list,
         selected_version |-> selected_version,
         version_df |-> version_df,
         balloons |-> Balloons(version_df),
         features |-> FeatureDisplay(version_df)]

(***************************************************************************)
(* The In-Detailed page's script                                           *)
(***************************************************************************)

\* df['at'] = pd.to_datetime(df['at'], errors='coerce')
DetailedFrame(rows) ==
    [i \in 1..Len(rows) |-> [rows[i] EXCEPT !.at = ToDatetimeCoerce(@)]]

ValidHours(df) == {df[i].at.hours : i \in {j \in 1..Len(df) : ~df[j].at.isNaT}}

\* Timestamp.date() of a timestamp handed to st.date_input, as a day number.
DateOf(hours) == hours \div HoursPerDay

\* pd.to_datetime(date): a day's midnight, in hours.
ToDatetime(day) == day * HoursPerDay

\* pd.to_datetime(date_range[1])
RangeEnd(day) == ToDatetime(day)

\* The value of st.date_input: what the user picked, or, untouched, the
\* default [df['at'].min(), df['at'].max()] (min and max skip NaT).
DateRangeValue(df, picked) ==
    IF Len(picked) > 0 THEN picked
    ELSE LET hs == ValidHours(df)
         IN  <<DateOf(CHOOSE h \in hs : \A g \in hs : h <= g),
               DateOf(CHOOSE h \in hs : \A g \in hs : h >= g)>>

\* filtered_df: the rows within the range and, with versions selected, of
\* these versions; NaT compares False.
FilteredDf(df, date_range, version_filter) ==
    LET inRange == SelectSeq(df, LAMBDA r :
                       /\ ~r.at.isNaT
                       /\ r.at.hours >= ToDatetime(date_range[1])
                       /\ r.at.hours <= RangeEnd(date_range[2]))
    IN  IF version_filter # {}
        THEN SelectSeq(inRange, LAMBDA r : r.releaseVersion \in version_filter)
        ELSE inRange

\* filtered_df["Sentiment"] = filtered_df["content"].apply(classify_sentiment)
WithSentiment(df) ==
    [i \in 1..Len(df) |->
        [at |-> df[i].at, score |-> df[i].score, appVersion |-> df[i].appVersion,
         releaseVersion |-> df[i].releaseVersion, content |-> df[i].content,
         feature |-> df[i].feature,
         Sentiment |-> classify_sentiment_detailed(df[i].content)]]

\* traceability: the columns of filtered_df the table and the CSV show.
Traceability(df) ==
    [i \in 1..Len(df) |->
        [at |-> df[i].at, content |-> df[i].content, score |-> df[i].score,
         Sentiment |-> df[i].Sentiment, feature |-> df[i].feature]]

\* The counts behind the pie chart.
SentimentCounts(df) ==
    [sn \in {"Positive", "Neutral", "Negative"} |->
        Len(SelectSeq(df, LAMBDA r : r.Sentiment = sn))]

\* The Gantt section: Description is the first feature description of a
\* version's rows that is not missing; slicing a missing one raises
\* TypeError, and create_gantt raises on an empty list of tasks.
GanttStatus(df) ==
    IF \E i \in 1..Len(df) :
          \A j \in 1..Len(df) :
              df[j].releaseVersion = df[i].releaseVersion => df[j].feature = NaN
    THEN "TypeError"
    ELSE IF Len(df) = 0 THEN "PlotlyError"
    ELSE "ok"

\* One run of the In-Detailed page's script on the table load_data returned.
DetailedRun(rows, picked, version_filter) ==
    LET df == DetailedFrame(rows)
        date_range == DateRangeValue(df, picked)
        sorted_versions_ == DetailedSortedVersions(Column(df, "releaseVersion")).list
    IN  IF Len(date_range) < 2
        THEN [status |-> "IndexError", date_range |-> date_range,
              sorted_versions |-> sorted_versions_]
        ELSE LET filtered_df == WithSentiment(FilteredDf(df, date_range, version_filter))
                 gantt == GanttStatus(filtered_df)
             IN  [status |-> gantt,
                  date_range |-> date_range,
                  sorted_versions |-> sorted_versions_,
                  traceability |-> Traceability(filtered_df),
                  sentiment_counts |-> SentimentCounts(filtered_df),
                  \* the download button is the last statement of the script
                  csv |-> IF gantt = "ok"
                          THEN [exported |-> TRUE, rows |-> Traceability(filtered_df)]
                          ELSE [exported |-> FALSE, rows |-> <<>>]]

(***************************************************************************)
(* A session                                                               *)
(***************************************************************************)

LastDay == 2

DefaultWidgets ==
    [selected_version |-> "All Versions", date_range |-> <<>>, version_filter |-> {}]

SessionStart ==
    /\ sheet = <<>>
    /\ cache = [balloon |-> NoTable, detailed |-> NoTable]
    /\ firstLoaded = [balloon |-> NoTable, detailed |-> NoTable]
    /\ page = "none"
    /\ widgets = DefaultWidgets
    /\ shown = [status |-> "notrun"]

\* The sheet on disk gets one more row (before or while the app runs).
EditSheet(row) ==
    /\ Len(sheet) < MaxSheetRows
    /\ sheet' = Append(sheet, row)
    /\ UNCHANGED <<cache, page, widgets, shown, firstLoaded>>
    /\ OnlySession

\* The Balloon page's script runs from top to bottom with the widget values w.
RunBalloonPage(w) ==
    /\ page' = "balloon"
    /\ widgets' = w
    /\ IF ~cache.balloon.loaded /\ BalloonFrameRaises(sheet)
       THEN /\ shown' = [status |-> "ValueError"]
            /\ UNCHANGED <<cache, firstLoaded>>
       ELSE LET entry == LoadCached(cache.balloon, BalloonFrame(sheet))
            IN  /\ cache' = [cache EXCEPT !.balloon = entry]
                /\ firstLoaded' = IF firstLoaded.balloon.loaded THEN firstLoaded
                                  ELSE [firstLoaded EXCEPT !.balloon = entry]
                /\ shown' = BalloonRun(entry.rows, w.selected_version)
    /\ UNCHANGED sheet
    /\ OnlySession

\* The In-Detailed page's script runs from top to bottom with the widget
\* values w.  (A table with no dated review at all is left out: the default
\* of the date input is then no date.)
RunDetailedPage(w) ==
    LET entry == LoadCached(cache.detailed, sheet)
    IN  /\ ValidHours(DetailedFrame(entry.rows)) # {}
        /\ page' = "detailed"
        /\ widgets' = w
        /\ cache' = [cache EXCEPT !.detailed = entry]
        /\ firstLoaded' = IF firstLoaded.detailed.loaded THEN firstLoaded
                          ELSE [firstLoaded EXCEPT !.detailed = entry]
        /\ shown' = DetailedRun(entry.rows, w.date_range, w.version_filter)
        /\ UNCHANGED sheet
        /\ OnlySession

\* The app is opened, or the Balloon page is chosen in the navigation: its
\* widgets start at their defaults.
OpenBalloon ==
    /\ page # "balloon"
    /\ RunBalloonPage(DefaultWidgets)

\* st.switch_page from the Balloon page's button, or the navigation.
OpenDetailed ==
    /\ page # "detailed"
    /\ RunDetailedPage(DefaultWidgets)

\* Any other interaction that reruns the page shown.
Rerun ==
    \/ page = "balloon" /\ RunBalloonPage(widgets)
    \/ page = "detailed" /\ RunDetailedPage(widgets)

\* The version select box changes.
SelectVersion(v) ==
    /\ page = "balloon"
    /\ shown.status = "ok"
    /\ \E i \in 1..Len(shown.version_list) : shown.version_list[i] = v
    /\ v # widgets.selected_version
    /\ RunBalloonPage([widgets EXCEPT !.selected_version = v])

\* Both ends of the date range are picked.
PickDateRange(first, last) ==
    /\ page = "detailed"
    /\ first <= last
    /\ RunDetailedPage([widgets EXCEPT !.date_range = <<first, last>>])

\* Only the start of a new range is picked so far.
PickStartOnly(first) ==
    /\ page = "detailed"
    /\ RunDetailedPage([widgets EXCEPT !.date_range = <<first>>])

\* The release version multiselect changes.
SelectReleaseVersions(vs) ==
    /\ page = "detailed"
    /\ vs # widgets.version_filter
    /\ vs \subseteq {shown.sorted_versions[i] : i \in 1..Len(shown.sorted_versions)}
    /\ RunDetailedPage([widgets EXCEPT !.version_filter = vs])

NextSession ==
    \/ \E row \in RowPool : EditSheet(row)
    \/ OpenBalloon
    \/ OpenDetailed
    \/ Rerun
    \/ \E v \in {"All Versions", "2.9", "2.10"} : SelectVersion(v)
    \/ \E first, last \in 0..LastDay : PickDateRange(first, last)
    \/ \E first \in 0..LastDay : PickStartOnly(first)
    \/ \E vs \in SUBSET {"v2.9", "v2.10"} : SelectReleaseVersions(vs)

(***************************************************************************)
(* Specifications                                                          *)
(***************************************************************************)

Init ==
    /\ SentimentStart
    /\ KeyStart
    /\ ListStart
    /\ BalloonStart
    /\ SessionStart

SpecSentiment == Init /\ [][NextSentiment]_vars

SpecKey == Init /\ [][NextKey]_vars

SpecList == Init /\ [][NextList]_vars

SpecBalloonScores == Init /\ [][NextBalloonScores]_vars

SpecBalloonTimes == Init /\ [][NextBalloonTimes]_vars

SpecSession == Init /\ [][NextSession]_vars

(***************************************************************************)
(* Properties                                                              *)
(***************************************************************************)

\* kw occurs in s: s is some prefix, then kw, then some suffix.
Occurs(kw, s) ==
    \E i \in 0..(Len(s) - Len(kw)) :
        s = SubSeq(s, 1, i) \o kw \o SubSeq(s, i + Len(kw) + 1, Len(s))

HasKeyword(s, words) ==
    LET lowered == Lower(s) IN \E k \in DOMAIN words : Occurs(words[k], lowered)

\* What the claim requires of a page's result for the current review text.
FirstMatchWins(result, positive, negative) ==
    LET pos == HasKeyword(reviewText, positive)
        neg == HasKeyword(reviewText, negative)
    IN  /\ result \in {"Positive", "Negative", "Neutral"}
        /\ pos => result = "Positive"
        /\ (~pos /\ neg) => result = "Negative"
        /\ (~pos /\ ~neg) => result = "Neutral"

\* C1: on both pages classify_sentiment returns exactly one of Positive,
\* Negative, Neutral: Positive whenever the lower-cased text contains a
\* keyword of the page's positive list (also when a negative keyword occurs
\* too), Negative when it contains no positive but some negative keyword,
\* Neutral when it contains neither.
C1_FirstMatchWins ==
    /\ sentimentBalloon # Unset =>
          FirstMatchWins(sentimentBalloon, BalloonPositiveWords, BalloonNegativeWords)
    /\ sentimentDetailed # Unset =>
          FirstMatchWins(sentimentDetailed, DetailedPositiveWords, DetailedNegativeWords)

\* A text with a positive and a negative keyword of both pages, in mixed
\* letter case, classified Positive by both pages.
C1_Witness ==
    /\ HasKeyword(reviewText, DetailedPositiveWords)
    /\ HasKeyword(reviewText, DetailedNegativeWords)
    /\ Lower(reviewText) # reviewText
    /\ sentimentBalloon = "Positive"
    /\ sentimentDetailed = "Positive"

(***************************************************************************)
(* Digit runs of a label, by position                                      *)
(***************************************************************************)

DigitAt(s, i) == i >= 1 /\ i <= Len(s) /\ IsDigit(CharAt(s, i))

\* Positions where a maximal digit run starts, and where the run ends.
RunStarts(s) == {i \in 1..Len(s) : DigitAt(s, i) /\ ~DigitAt(s, i - 1)}
RunEnd(s, i) == CHOOSE j \in i..Len(s) :
                   (\A k \in i..j : DigitAt(s, k)) /\ ~DigitAt(s, j + 1)

\* The k-th run start from the left.
NthStart(s, k) ==
    CHOOSE i \in RunStarts(s) : Cardinality({j \in RunStarts(s) : j < i}) = k - 1

RECURSIVE Pow10(_)
Pow10(n) == IF n = 0 THEN 1 ELSE 10 * Pow10(n - 1)

RECURSIVE SumOver(_, _, _, _)
SumOver(s, i, j, k) ==
    IF k > j THEN 0
    ELSE DigitValue(CharAt(s, k)) * Pow10(j - k) + SumOver(s, i, j, k + 1)

\* The number written in decimal at positions i..j of s.
DecimalAt(s, i, j) == SumOver(s, i, j, i)

RunCount(s) == Cardinality(RunStarts(s))

\* The integers of the digit runs of s, left to right.
RunInts(s) ==
    [k \in 1..RunCount(s) |->
        LET i == NthStart(s, k) IN DecimalAt(s, i, RunEnd(s, i))]

\* The text of s between its k-th digit run and the next one (k = 0: before
\* the first run; k = RunCount(s): behind the last).
TextAfterRun(s, k) ==
    LET from == IF k = 0 THEN 1 ELSE RunEnd(s, NthStart(s, k)) + 1
        to   == IF k = RunCount(s) THEN Len(s) ELSE NthStart(s, k + 1) - 1
    IN  SubSeq(s, from, to)

AsInts(ns) == [k \in 1..Len(ns) |-> IntElem(ns[k])]

\* C4 as stated: on both pages version_key returns exactly the integers of
\* the label's digit runs, left to right; for a label with no digits it
\* returns [0] on the Balloon page and [] on the In-Detailed page.  (Stated
\* for the non-empty labels only: an empty cell of the sheet loads as a
\* missing value, not as an empty label.)
C4_KeyIsDigitRuns ==
    Len(versionLabel) > 0 =>
        /\ keyBalloon.computed =>
              keyBalloon.key = IF RunCount(versionLabel) = 0 THEN <<IntElem(0)>>
                               ELSE AsInts(RunInts(versionLabel))
        /\ keyDetailed.computed =>
              keyDetailed.key = AsInts(RunInts(versionLabel))

\* C4 amended: on the Balloon page version_key returns exactly the integers
\* of the label's digit runs, left to right, and [0] for a label with no
\* digits; on the In-Detailed page it returns the label split at its digit
\* runs: the text before the first run, then each run as an integer followed
\* by the text up to the next run or the end (a text piece may be empty), so
\* a label with no digits gives the one-element list holding the label.
C4_KeyPerPage ==
    /\ keyBalloon.computed =>
          keyBalloon.key = IF RunCount(versionLabel) = 0 THEN <<IntElem(0)>>
                           ELSE AsInts(RunInts(versionLabel))
    /\ keyDetailed.computed =>
          LET n == RunCount(versionLabel)
              key == keyDetailed.key
          IN  /\ Len(key) = 2 * n + 1
              /\ \A k \in 1..n : key[2 * k] = IntElem(RunInts(versionLabel)[k])
              /\ \A k \in 0..n : key[2 * k + 1] = StrElem(TextAfterRun(versionLabel, k))

\* The keys of "v2.10" on both pages.
C4_Witness ==
    /\ versionLabel = "v2.10"
    /\ keyBalloon = [computed |-> TRUE, key |-> <<IntElem(2), IntElem(10)>>]
    /\ keyDetailed = [computed |-> TRUE,
                      key |-> <<StrElem("v"), IntElem(2), StrElem("."),
                                IntElem(10), StrElem("")>>]

(***************************************************************************)
(* Order of the version lists                                              *)
(***************************************************************************)

\* s with every maximal digit run replaced by "#": two labels with the same
\* shape differ only in their digit runs.
RECURSIVE Shape(_)
Shape(s) ==
    IF Len(s) = 0 THEN ""
    ELSE IF DigitAt(s, 1)
         THEN "#" \o Shape(SubSeq(s, RunEnd(s, 1) + 1, Len(s)))
         ELSE CharAt(s, 1) \o Shape(SubSeq(s, 2, Len(s)))

\* a is the smaller integer sequence (sequences of equal length, compared
\* from the left).
IntSeqLess(a, b) ==
    \E i \in 1..Len(a) :
        /\ i <= Len(b)
        /\ a[i] < b[i]
        /\ \A j \in 1..(i - 1) : a[j] = b[j]

ColumnLabels == {versionColumn[i] : i \in 1..Len(versionColumn)} \ {NaN}

ListLabels(l) == {l[i] : i \in 1..Len(l)}

NumericOrder(l) ==
    \A i, j \in 1..Len(l) :
        (Shape(l[i]) = Shape(l[j]) /\ IntSeqLess(RunInts(l[i]), RunInts(l[j])))
            => i < j

\* C5: on both pages sorting the version labels by version_key completes
\* without error, lists every label once, and puts, of two labels that differ
\* only in their digit runs, the one with the smaller integer sequence first
\* ("v2.9" before "v2.10").
C5_NumericOrder ==
    /\ version_list.status # "unset" =>
          /\ version_list.status = "ok"
          /\ Len(version_list.list) = Cardinality(ColumnLabels) + 1
          /\ ListLabels(version_list.list) = ColumnLabels \cup {"All Versions"}
          /\ NumericOrder(version_list.list)
    /\ sorted_versions.status # "unset" =>
          /\ sorted_versions.status = "ok"
          /\ Len(sorted_versions.list) = Cardinality(ColumnLabels)
          /\ ListLabels(sorted_versions.list) = ColumnLabels
          /\ NumericOrder(sorted_versions.list)

\* "v2.10" is loaded before "v2.9" and both pages list "v2.9" first.
C5_Witness ==
    /\ versionColumn = <<"v2.10", "beta", "v2.9">>
    /\ version_list = [status |-> "ok", list |-> <<"All Versions", "beta", "v2.9", "v2.10">>]
    /\ sorted_versions = [status |-> "ok", list |-> <<"beta", "v2.9", "v2.10">>]

HasDigit(s) == RunCount(s) > 0

\* Position of the first appearance of label x in the column.
FirstRow(x) == CHOOSE i \in 1..Len(versionColumn) :
                  versionColumn[i] = x /\ \A j \in 1..(i - 1) : versionColumn[j] # x

\* C6 as stated: on both pages, in the sorted version list every label with
\* no digit is placed before every label with at least one digit.
C6_NoDigitFirst ==
    \A l \in {version_list.list, sorted_versions.list} :
        \A i, j \in 1..Len(l) :
            (~HasDigit(l[i]) /\ HasDigit(l[j])) => i < j

\* C6 amended: on the Balloon page a label with no digit has the key [0]: it
\* is placed before every label with digits whose integer sequence is not
\* [0], and keeps its input order relative to a label whose integer
\* sequence is [0]; on the In-Detailed page a label with no digit is placed
\* before a label with digits exactly when it is, as a string, less than or
\* equal to the text that label has before its first digit, so a label that
\* starts with a digit comes before every non-empty label with no digit.
C6_NoDigitPlacement ==
    /\ \A i, j \in 2..Len(version_list.list) :
          LET l == version_list.list IN
          (~HasDigit(l[i]) /\ HasDigit(l[j])) =>
              IF RunInts(l[j]) = <<0>>
              THEN (i < j) = (FirstRow(l[i]) < FirstRow(l[j]))
              ELSE i < j
    /\ \A i, j \in 1..Len(sorted_versions.list) :
          LET l == sorted_versions.list IN
          (~HasDigit(l[i]) /\ HasDigit(l[j])) =>
              (i < j) = ~StrLess(TextAfterRun(l[j], 0), l[i])

\* The Balloon page keeps "v0" before "beta" and lists "2.1" last; the
\* In-Detailed page lists "2.1" before "beta".
C6_Witness ==
    /\ versionColumn = <<"v0", "beta", "2.1">>
    /\ version_list.list = <<"All Versions", "v0", "beta", "2.1">>
    /\ sorted_versions.list = <<"2.1", "beta", "v0">>

(***************************************************************************)
(* Balloon geometry                                                        *)
(***************************************************************************)

Abs(x) == IF x < 0 THEN -x ELSE x

\* Sum of the scores of the bucket's rows.
RECURSIVE TotalScore(_)
TotalScore(rows) ==
    IF rows = {} THEN 0
    ELSE LET r == CHOOSE x \in rows : TRUE
         IN  r.score * sentiment_df[r] + TotalScore(rows \ {r})

\* Pixels and data units as the model counts them.
Pixels(num, den) == (num * PixelDen) \div den
DataUnits(num, den) == (num * DataDen) \div den

WholeDaySpan ==
    LET times == {r.at : r \in DOMAIN sentiment_df}
        lo == CHOOSE t \in times : \A u \in times : t <= u
        hi == CHOOSE t \in times : \A u \in times : t >= u
    IN  CHOOSE d \in 0..(hi - lo) : d * 24 <= hi - lo /\ hi - lo < (d + 1) * 24

\* C8: for every non-empty bucket the scaled stick length is the whole-day
\* span between the earliest and the latest review divided by 15, floored at
\* 1.5: never below 1.5, 1.5 for every span up to 22 days, 2.0 for 30 days.
C8_DurationScaled ==
    balloon.drawn =>
        LET d == WholeDaySpan
            scaled == balloon.duration_scaled
        IN  /\ balloon.duration_days = d
            /\ scaled * 15 = IF 2 * d >= 45 THEN d * DataDen ELSE DataUnits(45, 2)
            /\ scaled >= DataUnits(3, 2)
            /\ d <= 22 => scaled = DataUnits(3, 2)
            /\ d = 30 => scaled = DataUnits(2, 1)

\* Reviews on day 0, at noon of day 0 and on day 30: 30 days, length 2.0.
C8_Witness ==
    /\ balloon.drawn
    /\ balloon.reviews = 3
    /\ {r.at : r \in DOMAIN sentiment_df} = {0, 12, 720}
    /\ balloon.duration_days = 30
    /\ balloon.duration_scaled = DataUnits(2, 1)

\* C9: for every non-empty bucket the drawn stick runs from 0 up to the
\* scaled duration minus the circle's radius in data units (the pixel radius
\* divided by 600), and the circle's centre sits one such radius above the
\* stick top, at the scaled duration; the 0.5 minimum of the visible stick
\* height never takes effect.
C9_StickAndCircle ==
    balloon.drawn =>
        LET r == balloon.circle_data_radius
            scaled == balloon.duration_scaled
        IN  /\ r * PixelDen * 600 = balloon.circle_pixel_radius * DataDen
            /\ balloon.stick_line_y = <<0, scaled - r>>
            /\ balloon.circle_y = balloon.stick_line_y[2] + r
            /\ balloon.circle_y = scaled
            /\ scaled - r > DataUnits(1, 2)

\* The largest circle on the shortest stick: mean score 5, all reviews
\* within a day.
C9_Witness ==
    /\ balloon.drawn
    /\ balloon.avg_score = 500
    /\ balloon.duration_days = 0
    /\ balloon.circle_pixel_radius = Pixels(80, 1)
    /\ balloon.stick_visible_height = DataUnits(3, 2) - DataUnits(80, 600)
    /\ balloon.circle_y = DataUnits(3, 2)

(***************************************************************************)
(* The pages' output                                                       *)
(***************************************************************************)

\* The rows of the table the In-Detailed page first loaded whose review
\* date lies within the days first..last, with the sentiment of their text.
RECURSIVE RowsWithinDays(_, _, _)
RowsWithinDays(rows, first, last) ==
    IF Len(rows) = 0 THEN <<>>
    ELSE LET r == rows[1]
             day == r.at.hours \div 24
         IN  IF r.at.kind = "datetime" /\ first <= day /\ day <= last
             THEN <<[at |-> Timestamp(r.at.hours), content |-> r.content,
                     score |-> r.score, feature |-> r.feature,
                     Sentiment |-> classify_sentiment_detailed(r.content)]>>
                  \o RowsWithinDays(Tail(rows), first, last)
             ELSE RowsWithinDays(Tail(rows), first, last)

\* C2: on the In-Detailed page the traceability table exported as CSV holds
\* exactly the input rows whose review timestamp lies within the selected
\* date range, both ends inclusive, and each exported row's Sentiment is
\* classify_sentiment of its content.  (Stated for the runs with no release
\* version selected, where the date range is the only filter.)
C2_ExportIsDateRange ==
    (/\ page = "detailed"
     /\ shown.status = "ok"
     /\ widgets.version_filter = {}) =>
        /\ shown.csv.exported
        /\ shown.csv.rows = RowsWithinDays(firstLoaded.detailed.rows,
                                           shown.date_range[1], shown.date_range[2])

\* C3: after any sequence of edits of the sheet, filter changes and reruns,
\* what a page shows is what its script computes from the table its
\* load_data returned first and the widget values of now; the cached table
\* is never altered.
C3_DependsOnFirstLoadAndFilters ==
    /\ \A p \in {"balloon", "detailed"} :
          /\ cache[p] = firstLoaded[p]
          /\ page = p => cache[p].loaded \/ shown.status = "ValueError"
    /\ page = "balloon" =>
          IF shown.status = "ValueError"
          THEN ~firstLoaded.balloon.loaded
          ELSE shown = BalloonRun(firstLoaded.balloon.rows, widgets.selected_version)
    /\ page = "detailed" =>
          shown = DetailedRun(firstLoaded.detailed.rows, widgets.date_range,
                              widgets.version_filter)

\* The In-Detailed page shows a table for a picked range and a selected
\* version after the sheet has got a row the first load did not have.
C3_Witness ==
    /\ page = "detailed"
    /\ firstLoaded.detailed.loaded
    /\ Len(sheet) > Len(firstLoaded.detailed.rows)
    /\ widgets.date_range = <<0, 1>>
    /\ widgets.version_filter = {"v2.9"}
    /\ shown.status = "ok"
    /\ Len(shown.traceability) = 1

\* The pieces of entry e between two '#' (or an end of e), by position.
Segments(e) ==
    {sg \in (1..(Len(e) + 1)) \X (0..Len(e)) :
        /\ sg[2] >= sg[1] - 1
        /\ sg[1] = 1 \/ CharAt(e, sg[1] - 1) = "#"
        /\ sg[2] = Len(e) \/ CharAt(e, sg[2] + 1) = "#"
        /\ \A k \in sg[1]..sg[2] : CharAt(e, k) # "#"}

\* Positions i..j of e without the blanks at both ends.
Trimmed(e, i, j) ==
    LET ns == {k \in i..j : CharAt(e, k) # " "}
    IN  IF ns = {} THEN ""
        ELSE SubSeq(e, CHOOSE k \in ns : \A m \in ns : k <= m,
                       CHOOSE k \in ns : \A m \in ns : k >= m)

FeatureNames(e) == {Trimmed(e, sg[1], sg[2]) : sg \in Segments(e)} \ {""}

\* The feature descriptions of the rows of the selected version.
SelectedEntries ==
    LET rows == firstLoaded.balloon.rows
    IN  {rows[i].feature : i \in {j \in 1..Len(rows) :
            \/ widgets.selected_version = "All Versions"
            \/ rows[j].appVersion = widgets.selected_version}} \ {NaN}

\* C10: for the records of the selected version the displayed feature list
\* is the set of all non-empty, trimmed pieces of every non-missing Feature
\* Description split on '#', without duplicates and in ascending order;
\* when the set is empty a message is shown instead of a list.
C10_FeatureList ==
    (page = "balloon" /\ shown.status = "ok") =>
        LET names == UNION {FeatureNames(e) : e \in SelectedEntries}
            items == shown.features.items
        IN  IF names = {} THEN shown.features.kind = "info"
            ELSE /\ shown.features.kind = "list"
                 /\ {items[i] : i \in 1..Len(items)} = names
                 /\ \A i, j \in 1..Len(items) : i < j => StrLess(items[i], items[j])

\* Two rows name Login and Search, one of them with blanks around the
\* pieces: the list is Export, Login, Search.
C10_Witness ==
    /\ page = "balloon"
    /\ shown.status = "ok"
    /\ SelectedEntries = {"Login#Search # Export", "Search#Login"}
    /\ shown.features = [kind |-> "list", items |-> <<"Export", "Login", "Search">>]

=============================================================================
